---- MODULE Spec2Model ----
(***************************************************************************)
(* The 2D gravitational-lensing program (BlackHole_curv): the compact      *)
(* object SagA, the photons (struct Ray), the geodesic right-hand side,    *)
(* the RK4 integrator, the horizon guard of Ray::step and the render loop  *)
(* of main (Spec).  The conversions between Cartesian and polar            *)
(* coordinates on their own (RoundTripSpec), the single-precision          *)
(* functions of physics_asm.s beside their C++ references (AsmSpec), and   *)
(* PhysicsASM_Demo, the program that tests them (DemoSpec).  One photon    *)
(* stepped on its own (PhotonSpec), the N-body simulation GravitySim with  *)
(* its pause key (GravitySpec), and the keys, the mouse and the orbit      *)
(* camera of BlackHole3D (CameraSpec).                                     *)
(*                                                                         *)
(* Numbers.  A C++ double is modelled as a binary fixed-point number with  *)
(* Scale = 2^10 units per 1.0, every operation rounding its exact result   *)
(* to the nearest representable value as IEEE arithmetic does.  A float    *)
(* (glm::vec2, the arguments of DistanceSquared) is the same with a        *)
(* coarser unit, FloatUlp, and a smaller range, FloatHuge.  In a double,   *)
(* NaN stands for every non-finite result: a division by zero, 0 * inf, an *)
(* overflow.  Every operation propagates it, and every comparison with it  *)
(* is false, as in IEEE arithmetic.  The single-precision registers of the *)
(* assembly keep Inf, -Inf and NaN apart.                                  *)
(*                                                                         *)
(* Units.  Lengths are in units of c * 1s, so that c = 1.0, and masses in  *)
(* units for which G = 1.0; main's affine step 1.0 is then one unit.       *)
(***************************************************************************)
EXTENDS Integers, Sequences, FiniteSets, TLC

\* ---------------------------------------------------------------- numbers

Scale == 32 * 32

Huge == Scale * Scale * Scale

NaN == -Huge

FloatUlp == Scale \div 256

One == Scale

Two == 2 * Scale

Abs(a) == IF a < 0 THEN -a ELSE a

Sgn(a) == IF a < 0 THEN -1 ELSE 1

IsNaN(a) == a = NaN

\* a finite result, or NaN when it left the representable range
Norm(v) == IF v >= Huge \/ v <= -Huge THEN NaN ELSE v

\* |a * b| / Scale for magnitudes a >= b >= 0, rounded to nearest,
\* saturating at Huge
MulMag(a, b) ==
  LET hi == a \div Scale
      lo == a % Scale
  IN  IF b >= Huge \div Scale THEN Huge
      ELSE IF hi > 0 /\ b > Huge \div hi THEN Huge
      ELSE hi * b + (lo * b + Scale \div 2) \div Scale

\* |a / b| * Scale for magnitudes a >= 0, b > 0, rounded to nearest,
\* saturating at Huge
DivMag(a, b) ==
  LET q   == a \div b
      rem == a % b
  IN  IF q >= Huge \div Scale THEN Huge
      ELSE IF b < Huge \div Scale
           THEN q * Scale + (rem * Scale + b \div 2) \div b
           ELSE q * Scale + rem \div (b \div Scale)

Neg(a) == IF IsNaN(a) THEN NaN ELSE -a

Add(a, b) == IF IsNaN(a) \/ IsNaN(b) THEN NaN ELSE Norm(a + b)

Sub(a, b) == Add(a, Neg(b))

Mul(a, b) ==
  IF IsNaN(a) \/ IsNaN(b) THEN NaN
  ELSE LET m == IF Abs(a) >= Abs(b) THEN MulMag(Abs(a), Abs(b))
                ELSE MulMag(Abs(b), Abs(a))
       IN  Norm(Sgn(a) * Sgn(b) * m)

\* a / b; x / 0 is inf or NaN in IEEE arithmetic: non-finite either way
Div(a, b) ==
  IF IsNaN(a) \/ IsNaN(b) \/ b = 0 THEN NaN
  ELSE Norm(Sgn(a) * Sgn(b) * DivMag(Abs(a), Abs(b)))

\* the comparisons of IEEE arithmetic: false when an operand is NaN
Le(a, b) == ~IsNaN(a) /\ ~IsNaN(b) /\ a <= b

Gt(a, b) == ~IsNaN(a) /\ ~IsNaN(b) /\ a > b

\* the magnitude from which a single-precision value is infinite: a float
\* overflows long before a double does (FLT_MAX against DBL_MAX)
FloatHuge == Huge \div 64

\* a magnitude rounded to the float grid
FloatGrid(a) == ((a + FloatUlp \div 2) \div FloatUlp) * FloatUlp

\* double -> float -> double: rounding to the float grid; a value beyond the
\* float range becomes infinite, which a double then holds as non-finite
Float(a) ==
  IF IsNaN(a) THEN NaN
  ELSE IF FloatGrid(Abs(a)) >= FloatHuge THEN NaN
  ELSE Sgn(a) * FloatGrid(Abs(a))

\* ------------------------------------------------- single precision (SSE)
\* A single-precision register holds a finite value of the float grid,
\* Inf, -Inf or NaN.

Inf == FloatHuge

IsInf(a) == a = Inf \/ a = -Inf

\* an exact result rounded to single precision
Single(v) ==
  IF FloatGrid(Abs(v)) >= FloatHuge THEN Sgn(v) * Inf
  ELSE Sgn(v) * FloatGrid(Abs(v))

\* float -> double: the infinities are non-finite doubles
Double(a) == IF IsNaN(a) \/ IsInf(a) THEN NaN ELSE a

\* mulss: inf * 0 is NaN
mulss(a, b) ==
  IF IsNaN(a) \/ IsNaN(b) THEN NaN
  ELSE IF IsInf(a) \/ IsInf(b)
       THEN (IF a = 0 \/ b = 0 THEN NaN ELSE Sgn(a) * Sgn(b) * Inf)
  ELSE IF Abs(a) >= Abs(b) THEN Single(Sgn(a) * Sgn(b) * MulMag(Abs(a), Abs(b)))
  ELSE Single(Sgn(a) * Sgn(b) * MulMag(Abs(b), Abs(a)))

\* divss a / b: inf / inf and 0 / 0 are NaN, x / 0 is infinite, x / inf is 0
divss(a, b) ==
  IF IsNaN(a) \/ IsNaN(b) THEN NaN
  ELSE IF IsInf(a) THEN (IF IsInf(b) THEN NaN ELSE Sgn(a) * Sgn(b) * Inf)
  ELSE IF IsInf(b) THEN 0
  ELSE IF b = 0 THEN (IF a = 0 THEN NaN ELSE Sgn(a) * Inf)
  ELSE Single(Sgn(a) * Sgn(b) * DivMag(Abs(a), Abs(b)))

\* addss: inf + (-inf) is NaN
addss(a, b) ==
  IF IsNaN(a) \/ IsNaN(b) THEN NaN
  ELSE IF IsInf(a) THEN (IF b = -a THEN NaN ELSE a)
  ELSE IF IsInf(b) THEN b
  ELSE Single(a + b)

\* subss a - b
subss(a, b) == addss(a, IF IsNaN(b) THEN NaN ELSE -b)

\* division of an integer magnitude by a small integer, to nearest
RDiv(a, n) == Sgn(a) * ((Abs(a) + n \div 2) \div n)

RECURSIVE ISqrtIter(_, _, _)
\* the largest k in lo..hi with k * k <= n  (lo * lo <= n < (hi+1)^2)
ISqrtIter(n, lo, hi) ==
  IF lo >= hi THEN lo
  ELSE LET mid == (lo + hi + 1) \div 2
       IN  IF mid * mid <= n THEN ISqrtIter(n, mid, hi)
           ELSE ISqrtIter(n, lo, mid - 1)

ISqrt(n) == ISqrtIter(n, 0, 46340)

\* std::sqrt: NaN for a negative or NaN argument
Sqrt(a) ==
  IF IsNaN(a) \/ a < 0 THEN NaN
  ELSE IF a < Huge \div (Scale * 2) THEN ISqrt(a * Scale)
  ELSE ISqrt(a) * 32

\* sqrtss: NaN for a negative or NaN operand, inf for inf
sqrtss(a) ==
  IF IsNaN(a) \/ a < 0 THEN NaN
  ELSE IF IsInf(a) THEN Inf
  ELSE Single(Sqrt(a))

\* ucomiss a, b followed by je: ZF is set when the operands are equal and
\* also when they are unordered (one of them is NaN)
ucomiss_je(a, b) == IsNaN(a) \/ IsNaN(b) \/ a = b

\* ------------------------------------------------------------ <cmath>

M_PI == (355 * Scale + 56) \div 113

HalfPi == M_PI \div 2

QuarterPi == M_PI \div 4

\* the Taylor polynomials of sin and cos on [-pi/4, pi/4]
SinT(x) ==
  LET x2 == Mul(x, x)
      x3 == Mul(x2, x)
      x5 == Mul(x3, x2)
  IN  x - RDiv(x3, 6) + RDiv(x5, 120)

CosT(x) ==
  LET x2 == Mul(x, x)
      x4 == Mul(x2, x2)
      x6 == Mul(x4, x2)
  IN  One - RDiv(x2, 2) + RDiv(x4, 24) - RDiv(x6, 720)

\* the angle in (-pi, pi] congruent to x modulo 2 pi
Reduce(x) == ((x + M_PI - 1) % (2 * M_PI)) - (M_PI - 1)

SinPos(y) ==
  IF y <= QuarterPi THEN SinT(y)
  ELSE IF y <= M_PI - QuarterPi THEN CosT(y - HalfPi)
  ELSE SinT(M_PI - y)

\* sin: sin(0) = 0 and sin(pi/2) = 1 exactly; NaN for a non-finite angle
sin(x) ==
  IF IsNaN(x) THEN NaN
  ELSE LET y == Reduce(x)
       IN  IF y >= 0 THEN SinPos(y) ELSE -SinPos(-y)

\* cos: cos(0) = 1 and cos(pi) = -1 exactly; NaN for a non-finite angle
cos(x) ==
  IF IsNaN(x) THEN NaN
  ELSE LET y == Abs(Reduce(x))
       IN  IF y <= QuarterPi THEN CosT(y)
           ELSE IF y <= M_PI - QuarterPi THEN -SinT(y - HalfPi)
           ELSE -CosT(M_PI - y)

\* ax * sin(t) - ay * cos(t): zero at the angle of the vector (ax, ay)
AtanGap(ax, ay, t) == Mul(ax, sin(t)) - Mul(ay, cos(t))

RECURSIVE AtanIter(_, _, _, _)
\* bisection for the first-quadrant angle of (ax, ay), ax > 0, ay > 0
AtanIter(ax, ay, lo, hi) ==
  IF hi - lo <= 1
  THEN IF Abs(AtanGap(ax, ay, lo)) <= Abs(AtanGap(ax, ay, hi)) THEN lo ELSE hi
  ELSE LET mid == (lo + hi) \div 2
       IN  IF AtanGap(ax, ay, mid) <= 0 THEN AtanIter(ax, ay, mid, hi)
           ELSE AtanIter(ax, ay, lo, mid)

\* atan2(y, x) in (-pi, pi]; atan2(0, 0) = 0 and atan2(0, x < 0) = pi
atan2(y, x) ==
  IF IsNaN(x) \/ IsNaN(y) THEN NaN
  ELSE LET ax == Abs(x)
           ay == Abs(y)
           t  == IF ay = 0 THEN 0
                 ELSE IF ax = 0 THEN HalfPi
                 ELSE AtanIter(ax, ay, 0, HalfPi)
       IN  IF x >= 0 THEN (IF y >= 0 THEN t ELSE -t)
           ELSE (IF y >= 0 THEN M_PI - t ELSE -(M_PI - t))

\* ------------------------------------------------------------ the program

\* physical constants, in the model's units
G == One

c == One

\* glm::vec2(a, b): two floats
vec2(a, b) == <<Float(a), Float(b)>>

\* vector_distance_squared followed by a square root: the distance
vector_distance(x1, y1, z1, x2, y2, z2) ==
  sqrtss(addss(addss(mulss(subss(x2, x1), subss(x2, x1)),
                     mulss(subss(y2, y1), subss(y2, y1))),
               mulss(subss(z2, z1), subss(z2, z1))))

\* vector_distance_squared: dx = x2 - x1 (subss), dx * dx (mulss), and the
\* sum of the three squares (addss), all in single precision
vector_distance_squared(x1, y1, z1, x2, y2, z2) ==
  addss(addss(mulss(subss(x2, x1), subss(x2, x1)),
              mulss(subss(y2, y1), subss(y2, y1))),
        mulss(subss(z2, z1), subss(z2, z1)))

\* PhysicsASM::DistanceSquared: the arguments are converted to float
DistanceSquared(x1, y1, z1, x2, y2, z2) ==
  vector_distance_squared(Float(x1), Float(y1), Float(z1),
                          Float(x2), Float(y2), Float(z2))

\* StandardImpl::DistanceSquared: dx*dx + dy*dy + dz*dz on floats
StandardImpl_DistanceSquared(x1, y1, z1, x2, y2, z2) ==
  addss(addss(mulss(subss(x2, x1), subss(x2, x1)),
              mulss(subss(y2, y1), subss(y2, y1))),
        mulss(subss(z2, z1), subss(z2, z1)))

\* grav_const, ".float 6.67430e-11": G as a float
grav_const == Float(G)

\* gravitational_force without its last instruction, the mulss by xmm1
gravitational_forceOneMass(xmm0, xmm1, xmm2) ==
  divss(mulss(xmm0, grav_const), xmm2)

\* gravitational_force, given what the caller left in xmm0, xmm1 and xmm2:
\* movss grav_const, %xmm3 (whatever xmm3 held is lost); mulss %xmm3, %xmm0;
\* divss %xmm2, %xmm0; mulss %xmm1, %xmm0; the result is xmm0
gravitational_force(xmm0, xmm1, xmm2) ==
  mulss(divss(mulss(xmm0, grav_const), xmm2), xmm1)

\* PhysicsASM::GravitationalForce: the System V calling convention puts the
\* three float arguments in xmm0, xmm1, xmm2
GravitationalForce(mass1, mass2, distSq) ==
  gravitational_force(mass1, mass2, distSq)

\* StandardImpl::GravitationalForce: "(G * m1 * m2) / distSq" on floats
StandardImpl_GravitationalForce(m1, m2, distSq) ==
  divss(mulss(mulss(grav_const, m1), m2), distSq)

\* sqrt(x*x + y*y + z*z) in single precision, as both normalisations
\* compute it
Magnitude(v) ==
  sqrtss(addss(addss(mulss(v[1], v[1]), mulss(v[2], v[2])),
               mulss(v[3], v[3])))

\* the three divss and movss of normalize_vector3
DivideInPlace(v, mag) == <<divss(v[1], mag), divss(v[2], mag), divss(v[3], mag)>>

\* normalize_vector3 without the test of the magnitude
normalize_vector3Unguarded(v) == DivideInPlace(v, Magnitude(v))

\* normalize_vector3: the array after the call; "ucomiss %xmm6, %xmm3;
\* je .Lskip_normalize" skips the divisions
normalize_vector3(v) ==
  IF ucomiss_je(Magnitude(v), 0) THEN v ELSE DivideInPlace(v, Magnitude(v))

\* PhysicsASM::Normalize
Normalize(vec) == normalize_vector3(vec)

\* StandardImpl::Normalize: "if (mag > 0.0f)" guards the three divisions
StandardImpl_Normalize(v) ==
  IF Gt(Magnitude(v), 0) THEN DivideInPlace(v, Magnitude(v)) ELSE v

\* dot_product3: x1*x2 + y1*y2 + z1*z2
dot_product3(v1, v2) ==
  addss(addss(mulss(v1[1], v2[1]), mulss(v1[2], v2[2])), mulss(v1[3], v2[3]))

\* StandardImpl::DotProduct
StandardImpl_DotProduct(v1, v2) ==
  addss(addss(mulss(v1[1], v2[1]), mulss(v1[2], v2[2])), mulss(v1[3], v2[3]))

\* vector_add3: the result array
vector_add3(v1, v2) ==
  <<addss(v1[1], v2[1]), addss(v1[2], v2[2]), addss(v1[3], v2[3])>>

\* vector_scale3: the result array
vector_scale3(v, scalar) ==
  <<mulss(v[1], scalar), mulss(v[2], scalar), mulss(v[3], scalar)>>

\* "movss %xmm, offset(base)": one float stored in memory
movss(memory, address, xmm) == [memory EXCEPT ![address] = xmm]

\* vector_add3 that clears the result and then accumulates v1 and v2 into it
VectorAddAccumulating(memory, rdi, rsi, rdx) ==
  LET cleared == [a \in DOMAIN memory |->
                    IF a \in rdx .. rdx + 2 THEN 0 ELSE memory[a]]
      first == [a \in DOMAIN memory |->
                  IF a \in rdx .. rdx + 2
                    THEN addss(cleared[a], cleared[rdi + (a - rdx)])
                    ELSE cleared[a]]
  IN  [a \in DOMAIN memory |->
         IF a \in rdx .. rdx + 2
           THEN addss(first[a], first[rsi + (a - rdx)])
           ELSE first[a]]

\* vector_add3 on the memory of its caller, PhysicsASM::VectorAdd: x is
\* loaded, added and stored, then y, then z
VectorAdd(memory, rdi, rsi, rdx) ==
  LET x == movss(memory, rdx, addss(memory[rdi], memory[rsi]))
      y == movss(x, rdx + 1, addss(x[rdi + 1], x[rsi + 1]))
  IN  movss(y, rdx + 2, addss(y[rdi + 2], y[rsi + 2]))

\* the physical constants of the 3D program, in the model's units
GRAVITATIONAL_CONSTANT == G

SPEED_OF_LIGHT == c

\* PhysicsUtils::CalculateSchwarzschildRadius(mass)
CalculateSchwarzschildRadius(mass) ==
  Div(Mul(Mul(Two, GRAVITATIONAL_CONSTANT), mass),
      Mul(SPEED_OF_LIGHT, SPEED_OF_LIGHT))

\* a constructor that leaves out the factor 2: r_s = G * mass / (c * c)
BlackHoleHalfRadius(m) ==
  [mass |-> Float(m), r_s |-> Div(Mul(G, Float(m)), Mul(c, c))]

\* BlackHole::BlackHole(pos, float m): r_s = 2.0 * G * mass / (c * c)
BlackHole(m) ==
  LET mass == Float(m)
  IN  [mass |-> mass, r_s |-> Div(Mul(Mul(Two, G), mass), Mul(c, c))]

\* Ray::Ray, "E = f * dt_dlambda" with
\* dt_dlambda = sqrt((dr*dr)/(f*f) + (r*r*dphi*dphi)/f)
RayEnergy(r, dr, dphi, f) ==
  Mul(f, Sqrt(Add(Div(Mul(dr, dr), Mul(f, f)),
                  Div(Mul(Mul(Mul(r, r), dphi), dphi), f))))

\* Ray::Ray, the conserved quantities: "L = r*r*dphi", f = 1.0 - SagA.r_s/r
\* and E, which complete the photon
RayConserved(x, y, r, phi, dr, dphi, rs) ==
  [x |-> x, y |-> y, r |-> r, phi |-> phi, dr |-> dr, dphi |-> dphi,
   trail |-> <<vec2(x, y)>>,
   E |-> RayEnergy(r, dr, dphi, Sub(One, Div(rs, r))),
   L |-> Mul(Mul(r, r), dphi)]

\* Ray::Ray, the velocities: dr = dir.x*cos(phi) + dir.y*sin(phi) and
\* dphi = (-dir.x*sin(phi) + dir.y*cos(phi)) / r
RayVelocity(x, y, r, phi, dir, rs) ==
  RayConserved(x, y, r, phi,
               Add(Mul(dir[1], cos(phi)), Mul(dir[2], sin(phi))),
               Div(Add(Mul(Neg(dir[1]), sin(phi)), Mul(dir[2], cos(phi))), r),
               rs)

\* Ray::Ray(pos, dir), with rs the radius of the global SagA:
\* "float distSq = DistanceSquared(x, y, 0, 0, 0, 0); r = std::sqrt(distSq)"
\* in single precision, and phi = atan2(y, x)
Ray(pos, dir, rs) ==
  RayVelocity(pos[1], pos[2],
              Double(sqrtss(DistanceSquared(pos[1], pos[2], 0, 0, 0, 0))),
              atan2(pos[2], pos[1]), dir, rs)

\* geodesicRHS(ray, rhs, rs): the four derivatives, rhs[0..3] as <<1..4>>
geodesicRHS(ray, rs) ==
  LET r     == ray.r
      dr    == ray.dr
      dphi  == ray.dphi
      E     == ray.E
      f     == Sub(One, Div(rs, r))
      dt_dl == Div(E, f)
      rr2   == Mul(Mul(Two, r), r)
  IN  << dr,
         dphi,
         Add(Add(Mul(Mul(Neg(Div(rs, rr2)), f), Mul(dt_dl, dt_dl)),
                 Mul(Div(rs, Mul(rr2, f)), Mul(dr, dr))),
             Mul(Sub(r, rs), Mul(dphi, dphi))),
         Div(Mul(Mul(Neg(Two), dr), dphi), r) >>

\* addState(a, b, factor, out): out[i] = a[i] + b[i] * factor
addState(a, b, factor) == [i \in 1..4 |-> Add(a[i], Mul(b[i], factor))]

\* a stage photon whose energy is recomputed from the stage state instead of
\* being copied from the photon: the energy of a photon moving radially
\* with the stage's dr
StageRayOwnEnergy(ray, temp) ==
  [ray EXCEPT !.r = temp[1], !.phi = temp[2], !.dr = temp[3],
              !.dphi = temp[4], !.E = Abs(temp[3])]

\* "Ray r2 = ray; r2.r=temp[0]; r2.phi=temp[1]; r2.dr=temp[2]; r2.dphi=temp[3];"
\* a copy of the photon (E and L included) at a stage state
StageRay(ray, temp) ==
  [ray EXCEPT !.r = temp[1], !.phi = temp[2], !.dr = temp[3], !.dphi = temp[4]]

\* rk4Step, "double y0[4] = { ray.r, ray.phi, ray.dr, ray.dphi }"
rk4Y0(ray) == <<ray.r, ray.phi, ray.dr, ray.dphi>>

\* rk4Step, "addState(y0, k, factor, temp); Ray rN = ray; rN.r=temp[0]; ..."
rk4Stage(ray, k, factor) == StageRay(ray, addState(rk4Y0(ray), k, factor))

\* rk4Step, the locals k1, r2, k2, r3, k3, r4, k4 in the order of the code
rk4K1(ray, dl, rs) == geodesicRHS(ray, rs)

rk4R2(ray, dl, rs) == rk4Stage(ray, rk4K1(ray, dl, rs), Div(dl, Two))

rk4K2(ray, dl, rs) == geodesicRHS(rk4R2(ray, dl, rs), rs)

\* a third stage built from the second stage photon instead of y0
rk4R3FromR2(ray, dl, rs) ==
  rk4Stage(rk4R2(ray, dl, rs), rk4K2(ray, dl, rs), Div(dl, Two))

rk4R3(ray, dl, rs) == rk4Stage(ray, rk4K2(ray, dl, rs), Div(dl, Two))

rk4K3(ray, dl, rs) == geodesicRHS(rk4R3(ray, dl, rs), rs)

rk4R4(ray, dl, rs) == rk4Stage(ray, rk4K3(ray, dl, rs), dl)

rk4K4(ray, dl, rs) == geodesicRHS(rk4R4(ray, dl, rs), rs)

\* (dl/6.0) * (k1[i] + 2*k2[i] + 2*k3[i] + k4[i])
rk4Increment(k1, k2, k3, k4, dl, i) ==
  Mul(Div(dl, 6 * One),
      Add(Add(Add(k1[i], Mul(Two, k2[i])), Mul(Two, k3[i])), k4[i]))

\* rk4Step, the four "+=" that end it
rk4Update(ray, k1, k2, k3, k4, dl) ==
  [ray EXCEPT !.r    = Add(ray.r,    rk4Increment(k1, k2, k3, k4, dl, 1)),
              !.phi  = Add(ray.phi,  rk4Increment(k1, k2, k3, k4, dl, 2)),
              !.dr   = Add(ray.dr,   rk4Increment(k1, k2, k3, k4, dl, 3)),
              !.dphi = Add(ray.dphi, rk4Increment(k1, k2, k3, k4, dl, 4))]

\* rk4Step(ray, dl, rs): the photon after one RK4 step
rk4Step(ray, dl, rs) ==
  rk4Update(ray, rk4K1(ray, dl, rs), rk4K2(ray, dl, rs), rk4K3(ray, dl, rs),
            rk4K4(ray, dl, rs), dl)

\* a guard that stops a photon four radii out: "if(r <= 4*rs) return;"
InsideHorizonWide(ray, rs) == Le(ray.r, Mul(Two + Two, rs))

\* the horizon guard of Ray::step: "if(r <= rs) return;"
InsideHorizon(ray, rs) == Le(ray.r, rs)

\* the end of Ray::step if it pushed before assigning: the trail receives
\* the position the photon had before the step
pushTrailPrevious(ray, x, y) ==
  [ray EXCEPT !.x = x, !.y = y, !.trail = Append(@, vec2(ray.x, ray.y))]

\* the end of Ray::step if it recomputed the angular momentum from the
\* integrated state
pushTrailRecomputingL(ray, x, y) ==
  [ray EXCEPT !.x = x, !.y = y, !.trail = Append(@, vec2(x, y)),
              !.L = Mul(Mul(ray.r, ray.r), ray.dphi)]

\* the end of Ray::step if it kept one point: the last point of the trail is
\* overwritten instead of a point being appended
pushTrailOverwrite(ray, x, y) ==
  [ray EXCEPT !.x = x, !.y = y,
              !.trail = [@ EXCEPT ![Len(@)] = vec2(x, y)]]

\* Ray::step, "trail.push_back({ float(x), float(y) })" after x and y are
\* assigned
pushTrail(ray, x, y) ==
  [ray EXCEPT !.x = x, !.y = y, !.trail = Append(@, vec2(x, y))]

\* Ray::step, "x = r * cos(phi); y = r * sin(phi);" and the push
toCartesian(ray) ==
  pushTrail(ray, Mul(ray.r, cos(ray.phi)), Mul(ray.r, sin(ray.phi)))

\* Ray::step without its horizon guard: every call integrates
stepUnguarded(ray, dl, rs) == toCartesian(rk4Step(ray, dl, rs))

\* Ray::step(dl, rs): the photon after the call
step(ray, dl, rs) ==
  IF InsideHorizon(ray, rs) THEN ray
  ELSE toCartesian(rk4Step(ray, dl, rs))

\* the energies read by the four geodesicRHS calls of one rk4Step:
\* ray.E, r2.E, r3.E, r4.E
rhsEnergies(ray, dl, rs) ==
  <<ray.E, rk4R2(ray, dl, rs).E, rk4R3(ray, dl, rs).E, rk4R4(ray, dl, rs).E>>

\* ------------------------------------------------------------------ bounds

\* the number of photons main creates (numRays)
NumRays == 2

\* the number of frames the render loop is followed for
MaxFrames == 5

\* the masses SagA is constructed with
Masses == {One, (3 * One) \div 2}

\* the positions photons start from, in the order main's loop pushes them:
\* on the axis through the object (zero impact parameter) and beside it,
\* all moving in direction (c, 0)
StartPositions ==
  << <<-(17 * One) \div 4, 0>>, <<-(5 * One) \div 2, 0>>,
     <<-4 * One, One>>, <<-4 * One, 2 * One>>,
     <<-4 * One, 5 * One>>, <<-4 * One, 7 * One>>,
     <<-4 * One, 12 * One>> >>

\* the framebuffer sizes the window can be resized to
WindowSizes == {<<800, 600>>, <<400, 300>>}

\* ------------------------------------------------------------------- state

VARIABLES
  SagA,        \* the global BlackHole: [mass, r_s]
  rays,        \* the global std::vector<Ray>
  engine,      \* Engine::WIDTH, Engine::HEIGHT
  shouldClose, \* glfwWindowShouldClose(engine.window)
  pc,          \* the statement of main's loop that runs next
  idx,         \* the position of "for (auto& ray : rays)"
  frame,       \* the number of the current frame
  created,     \* history: the photons as their constructor left them
  calls,       \* history: per photon, the calls of Ray::step so far
  nsteps,      \* history: per photon, the calls that integrated
  rhsE,        \* history: per photon, rhsEnergies of its last rk4Step
  stepped,     \* history: the photons stepped in the current frame
  drawn,       \* history: the photons drawn in the current frame
  canvas,      \* the vertices given to OpenGL since the last glClear
  input,       \* a function or program run on its own: what it is given
  output,      \* ... what it has produced so far
  where        \* ... and the statement it is at

vars == <<SagA, rays, engine, shouldClose, pc, idx, frame,
          created, calls, nsteps, rhsE, stepped, drawn, canvas,
          input, output, where>>

\* the state of BlackHole_curv
lensing == <<SagA, rays, engine, shouldClose, pc, idx, frame,
             created, calls, nsteps, rhsE, stepped, drawn, canvas>>

\* the state of a function or program run on its own
harness == <<input, output, where>>

history == <<created, calls, nsteps, rhsE, stepped, drawn>>

\* an affine step that follows the window: doubled once the framebuffer has
\* been resized
dLambdaByWindow == IF engine.WIDTH = 800 THEN One ELSE Two

\* main's "ray.step(1.0, SagA.r_s)": the affine step
dLambda == One

\* main, up to the render loop: the photons are constructed one after the
\* other at successive start positions, all with direction (c, 0.0)
Init ==
  /\ SagA \in {BlackHole(m) : m \in Masses}
  /\ \E ps \in [1..NumRays -> DOMAIN StartPositions] :
       /\ \A i \in 1..(NumRays - 1) : ps[i] < ps[i + 1]
       /\ rays = [i \in 1..NumRays |->
                    Ray(vec2(StartPositions[ps[i]][1], StartPositions[ps[i]][2]),
                        vec2(c, 0), SagA.r_s)]
  /\ engine = [WIDTH |-> 800, HEIGHT |-> 600]
  /\ shouldClose = FALSE
  /\ pc = "run"
  /\ idx = 1
  /\ frame = 1
  /\ created = rays
  /\ calls = [i \in 1..NumRays |-> 0]
  /\ nsteps = [i \in 1..NumRays |-> 0]
  /\ rhsE = [i \in 1..NumRays |-> <<>>]
  /\ stepped = {}
  /\ drawn = {}
  /\ canvas = <<>>
  /\ input = <<>>
  /\ output = <<>>
  /\ where = "BlackHole_curv"

\* a loop body with two passes: every photon is stepped, then every photon
\* is drawn
LoopNextTwoPasses(p, i, n) ==
  CASE p = "run"    -> <<"bhdraw", i>>
    [] p = "bhdraw" -> IF n = 0 THEN <<"swap", i>> ELSE <<"step", 1>>
    [] p = "step"   -> IF i < n THEN <<"step", i + 1>> ELSE <<"draw", 1>>
    [] p = "draw"   -> IF i < n THEN <<"draw", i + 1>> ELSE <<"swap", i>>
    [] p = "swap"   -> <<"poll", i>>

\* the order of the statements of the loop body: what runs after statement
\* p, at position i of the for loop over n photons, as <<pc, idx>>
LoopNext(p, i, n) ==
  CASE p = "run"    -> <<"bhdraw", i>>
    [] p = "bhdraw" -> IF n = 0 THEN <<"swap", i>> ELSE <<"step", 1>>
    [] p = "step"   -> <<"draw", i>>
    [] p = "draw"   -> IF i < n THEN <<"step", i + 1>> ELSE <<"swap", i>>
    [] p = "swap"   -> <<"poll", i>>

Goto(p) ==
  /\ pc' = LoopNext(p, idx, Len(rays))[1]
  /\ idx' = LoopNext(p, idx, Len(rays))[2]

\* a step that advances the whole vector, not the photon at position i
StepRaysAll(rs, i, dl, r_s) == [j \in DOMAIN rs |-> step(rs[j], dl, r_s)]

\* a step that erases a photon found inside the horizon from the vector
StepRaysErasing(rs, i, dl, r_s) ==
  IF InsideHorizon(rs[i], r_s)
  THEN [j \in 1..(Len(rs) - 1) |-> IF j < i THEN rs[j] ELSE rs[j + 1]]
  ELSE [rs EXCEPT ![i] = step(rs[i], dl, r_s)]

\* the vector after "ray.step(dl, rs)" on the photon at position i
StepRays(rs, i, dl, r_s) == [rs EXCEPT ![i] = step(rs[i], dl, r_s)]

\* BlackHole::draw, what it gives to OpenGL: a fan around (0, 0) whose rim
\* is "float x = r_s * cos(angle)", a disc of radius r_s
BlackHoleVertices(bh) == [centre |-> <<0, 0>>, radius |-> Float(bh.r_s)]

\* BlackHole::draw, the object after the call: no member is assigned
drawBlackHole(bh) == bh

\* Ray::draw, what it gives to OpenGL: the point glVertex2f(x, y) and, when
\* the trail has two points or more, the line strip of the trail
RayVertices(ray) ==
  [point |-> vec2(ray.x, ray.y),
   strip |-> IF Len(ray.trail) >= 2 THEN ray.trail ELSE <<>>]

\* a Ray::draw that fades the trail by dropping its oldest point
drawFading(ray) == [ray EXCEPT !.trail = SubSeq(@, 2, Len(@))]

\* Ray::draw, the photon after the call: no member is assigned
draw(ray) == ray

\* the vector after "ray.draw()" on the photon at position i
DrawRays(rs, i) == [rs EXCEPT ![i] = draw(rs[i])]

\* engine.run(): glClear
EngineRun ==
  /\ pc = "run"
  /\ canvas' = <<>>
  /\ Goto("run")
  /\ UNCHANGED harness
  /\ UNCHANGED <<SagA, rays, engine, shouldClose, frame, history>>

\* SagA.draw(): reads r_s
SagADraw ==
  /\ pc = "bhdraw"
  /\ SagA' = drawBlackHole(SagA)
  /\ canvas' = Append(canvas, BlackHoleVertices(SagA))
  /\ Goto("bhdraw")
  /\ UNCHANGED harness
  /\ UNCHANGED <<rays, engine, shouldClose, frame, history>>

\* ray.step(1.0, SagA.r_s)
RayStep ==
  /\ pc = "step"
  /\ rays' = StepRays(rays, idx, dLambda, SagA.r_s)
  /\ calls' = [calls EXCEPT ![idx] = @ + 1]
  /\ stepped' = stepped \cup {idx}
  /\ IF InsideHorizon(rays[idx], SagA.r_s)
     THEN UNCHANGED <<nsteps, rhsE>>
     ELSE /\ nsteps' = [nsteps EXCEPT ![idx] = @ + 1]
          /\ rhsE' = [rhsE EXCEPT
                        ![idx] = rhsEnergies(rays[idx], dLambda, SagA.r_s)]
  /\ Goto("step")
  /\ UNCHANGED harness
  /\ UNCHANGED <<SagA, engine, shouldClose, frame, created, drawn, canvas>>

\* ray.draw(): reads x, y and the trail
RayDraw ==
  /\ pc = "draw"
  /\ rays' = DrawRays(rays, idx)
  /\ canvas' = Append(canvas, RayVertices(rays[idx]))
  /\ drawn' = drawn \cup {idx}
  /\ Goto("draw")
  /\ UNCHANGED harness
  /\ UNCHANGED <<SagA, engine, shouldClose, frame,
                 created, calls, nsteps, rhsE, stepped>>

\* glfwSwapBuffers
SwapBuffers ==
  /\ pc = "swap"
  /\ Goto("swap")
  /\ UNCHANGED harness
  /\ UNCHANGED <<SagA, rays, engine, shouldClose, frame, history, canvas>>

\* glfwPollEvents delivers a resize: the framebuffer-size callback
FramebufferSizeCallback ==
  /\ pc = "poll"
  /\ \E wh \in WindowSizes :
       /\ wh # <<engine.WIDTH, engine.HEIGHT>>
       /\ engine' = [WIDTH |-> wh[1], HEIGHT |-> wh[2]]
  /\ UNCHANGED harness
  /\ UNCHANGED <<SagA, rays, shouldClose, pc, idx, frame, history, canvas>>

\* glfwPollEvents delivers a close request
CloseRequest ==
  /\ pc = "poll"
  /\ ~shouldClose
  /\ shouldClose' = TRUE
  /\ UNCHANGED harness
  /\ UNCHANGED <<SagA, rays, engine, pc, idx, frame, history, canvas>>

\* glfwPollEvents returns and "while(!glfwWindowShouldClose(...))" is
\* evaluated: the next frame begins
NextFrame ==
  /\ pc = "poll"
  /\ ~shouldClose
  /\ frame < MaxFrames
  /\ pc' = "run"
  /\ idx' = 1
  /\ frame' = frame + 1
  /\ stepped' = {}
  /\ drawn' = {}
  /\ UNCHANGED harness
  /\ UNCHANGED <<SagA, rays, engine, shouldClose,
                 created, calls, nsteps, rhsE, canvas>>

\* ... or the loop ends and main returns
Exit ==
  /\ pc = "poll"
  /\ shouldClose
  /\ pc' = "exit"
  /\ UNCHANGED harness
  /\ UNCHANGED <<SagA, rays, engine, shouldClose, idx, frame, history,
                 canvas>>

Next ==
  \/ EngineRun
  \/ SagADraw
  \/ RayStep
  \/ RayDraw
  \/ SwapBuffers
  \/ FramebufferSizeCallback
  \/ CloseRequest
  \/ NextFrame
  \/ Exit

Spec == Init /\ [][Next]_vars

\* --------------------------------------- the conversions, on their own

\* BlackHole_curv is not running
NotRunning ==
  /\ SagA = BlackHole(One)
  /\ rays = <<>>
  /\ engine = [WIDTH |-> 800, HEIGHT |-> 600]
  /\ shouldClose = FALSE
  /\ pc = "exit"
  /\ idx = 1
  /\ frame = 1
  /\ created = <<>>
  /\ calls = <<>>
  /\ nsteps = <<>>
  /\ rhsE = <<>>
  /\ stepped = {}
  /\ drawn = {}
  /\ canvas = <<>>

\* the coordinates a photon is constructed at: of the size of main's, far
\* larger (their square is beyond the float range), and the smallest float
\* (its square is below the float range)
Coordinates ==
  {-200 * One, -8 * One, -3 * One, 0, FloatUlp, 3 * One, 4 * One, 8 * One,
   200 * One}

\* a photon is about to be constructed at a position other than (0, 0)
RoundTripInit ==
  /\ NotRunning
  /\ input \in {[pos |-> vec2(x, y), dir |-> vec2(c, 0), rs |-> BlackHole(m).r_s] :
                  x \in Coordinates, y \in Coordinates, m \in Masses}
  /\ input.pos # <<0, 0>>
  /\ output = <<>>
  /\ where = "Ray::Ray"

\* Ray::Ray(pos, dir): Cartesian to polar
ToPolar ==
  /\ where = "Ray::Ray"
  /\ output' = Ray(input.pos, input.dir, input.rs)
  /\ where' = "Ray::step"
  /\ UNCHANGED <<input, lensing>>

\* the end of Ray::step: polar to Cartesian
ToCartesian ==
  /\ where = "Ray::step"
  /\ output' = toCartesian(output)
  /\ where' = "return"
  /\ UNCHANGED <<input, lensing>>

RoundTripNext ==
  \/ ToPolar
  \/ ToCartesian

RoundTripSpec == RoundTripInit /\ [][RoundTripNext]_vars

\* ------------------------------------------------- a photon, on its own

\* the number of points a trail is followed to
MaxTrail == 3

\* a photon is about to be constructed, at any position: outside the horizon,
\* on it (r = rs), inside it, and at the origin
PhotonInit ==
  /\ NotRunning
  /\ input \in {[pos |-> vec2(x, y), dir |-> vec2(c, 0), rs |-> BlackHole(m).r_s] :
                  x \in Coordinates, y \in Coordinates, m \in Masses}
  /\ output = <<>>
  /\ where = "Ray::Ray"

\* "ray.step(1.0, SagA.r_s)" on the constructed photon, call after call
StepCall ==
  /\ where = "Ray::step"
  /\ Len(output.trail) < MaxTrail
  /\ output' = step(output, dLambda, input.rs)
  /\ UNCHANGED <<input, where, lensing>>

PhotonNext ==
  \/ ToPolar
  \/ StepCall

PhotonSpec == PhotonInit /\ [][PhotonNext]_vars

\* ------------------------------------------------------- PhysicsASM_Demo

\* the functions of the assembly object that the demo compares with a
\* C++ reference
Compared == {"vector_distance_squared", "gravitational_force", "normalize_vector3"}

\* the command lines the demo is started with
CommandLines == {<<>>, <<"--benchmark">>, <<"--verbose">>}

\* the demo is the test of the assembly object it is linked with: that
\* object is physics_asm.s, or an object in which some of the compared
\* functions are not implemented yet and return at once (stubs)
Objects == [stubs : SUBSET Compared]

\* the inputs of TestGravitationalForce (the Earth, the Moon and their
\* squared distance) in the model's units
EarthMass == 8 * One

MoonMass == 2 * One

EarthMoonDistSq == 4 * One

\* "std::abs(a - b) < 0.0001f"
Match(a, b) ==
  /\ ~IsNaN(subss(a, b))
  /\ ~IsInf(subss(a, b))
  /\ Abs(subss(a, b)) * 10000 < Scale

\* "std::abs(asm_result - cpp_result) < 1e10f" on forces of 1.98e20 N, where
\* 1e10 is less than the distance between two neighbouring floats: only
\* equal forces match
MatchForce(a, b) == ~IsNaN(subss(a, b)) /\ subss(a, b) = 0

\* the "Match:" line of TestDistanceSquared
TestDistanceSquaredMatch(object) ==
  Match(IF "vector_distance_squared" \in object.stubs THEN One
        ELSE DistanceSquared(One, 2 * One, 3 * One, 4 * One, 6 * One, 8 * One),
        StandardImpl_DistanceSquared(One, 2 * One, 3 * One,
                                     4 * One, 6 * One, 8 * One))

\* the "Match:" line of TestGravitationalForce
TestGravitationalForceMatch(object) ==
  MatchForce(IF "gravitational_force" \in object.stubs THEN EarthMass
             ELSE GravitationalForce(EarthMass, MoonMass, EarthMoonDistSq),
             StandardImpl_GravitationalForce(EarthMass, MoonMass,
                                             EarthMoonDistSq))

\* TestNormalize, "diff": the sum of the three absolute differences
NormalizeDiff(a, b) ==
  addss(addss(Abs(subss(a[1], b[1])), Abs(subss(a[2], b[2]))),
        Abs(subss(a[3], b[3])))

\* the "Match:" line of TestNormalize, on the vector (3, 4, 0)
TestNormalizeMatch(object) ==
  Match(NormalizeDiff(IF "normalize_vector3" \in object.stubs
                      THEN <<3 * One, 4 * One, 0>>
                      ELSE Normalize(<<3 * One, 4 * One, 0>>),
                      StandardImpl_Normalize(<<3 * One, 4 * One, 0>>)), 0)

\* the "Match:" line of TestDotProduct, on (1, 2, 3) and (4, 5, 6)
TestDotProductMatch ==
  Match(dot_product3(<<One, 2 * One, 3 * One>>, <<4 * One, 5 * One, 6 * One>>),
        StandardImpl_DotProduct(<<One, 2 * One, 3 * One>>,
                                <<4 * One, 5 * One, 6 * One>>))

\* the "Match:" line of TestVectorAdd: the result is exactly (5, 7, 9)
TestVectorAddMatch ==
  vector_add3(<<One, 2 * One, 3 * One>>, <<4 * One, 5 * One, 6 * One>>)
    = <<5 * One, 7 * One, 9 * One>>

\* the "Match:" line of TestVectorScale: (1, 2, 3) * 2.5 is (2.5, 5, 7.5)
TestVectorScaleMatch ==
  /\ Match(vector_scale3(<<One, 2 * One, 3 * One>>, (5 * One) \div 2)[1],
           (5 * One) \div 2)
  /\ Match(vector_scale3(<<One, 2 * One, 3 * One>>, (5 * One) \div 2)[2],
           5 * One)
  /\ Match(vector_scale3(<<One, 2 * One, 3 * One>>, (5 * One) \div 2)[3],
           (15 * One) \div 2)

\* the demo is started: nothing is printed yet and there is no exit status
DemoInit ==
  /\ NotRunning
  /\ input \in [argv : CommandLines, object : Objects]
  /\ output = [printed |-> <<>>, status |-> <<>>]
  /\ where = "main"

\* a test function prints its "Match:" line and the next statement is next
Printed(test, match, next) ==
  /\ output' = [output EXCEPT !.printed = Append(@, <<test, match>>)]
  /\ where' = next
  /\ UNCHANGED <<input, lensing>>

\* main, up to "if (benchmark_mode)"
DemoMain ==
  /\ where = "main"
  /\ where' = IF Len(input.argv) > 0 /\ input.argv[1] = "--benchmark"
              THEN "BenchmarkPerformance" ELSE "TestDistanceSquared"
  /\ UNCHANGED <<input, output, lensing>>

\* BenchmarkPerformance(): timings, no comparison
BenchmarkPerformance ==
  /\ where = "BenchmarkPerformance"
  /\ output' = [output EXCEPT !.printed = Append(@, <<"Benchmarks Complete!">>)]
  /\ where' = "return 0"
  /\ UNCHANGED <<input, lensing>>

TestDistanceSquared ==
  /\ where = "TestDistanceSquared"
  /\ Printed("TestDistanceSquared", TestDistanceSquaredMatch(input.object),
             "TestGravitationalForce")

TestGravitationalForce ==
  /\ where = "TestGravitationalForce"
  /\ Printed("TestGravitationalForce",
             TestGravitationalForceMatch(input.object), "TestNormalize")

TestNormalize ==
  /\ where = "TestNormalize"
  /\ Printed("TestNormalize", TestNormalizeMatch(input.object),
             "TestDotProduct")

TestDotProduct ==
  /\ where = "TestDotProduct"
  /\ Printed("TestDotProduct", TestDotProductMatch, "TestVectorAdd")

TestVectorAdd ==
  /\ where = "TestVectorAdd"
  /\ Printed("TestVectorAdd", TestVectorAddMatch, "TestVectorScale")

TestVectorScale ==
  /\ where = "TestVectorScale"
  /\ Printed("TestVectorScale", TestVectorScaleMatch, "TestPhysicsScenario")

\* TestPhysicsScenario(): prints a force vector, compares nothing
TestPhysicsScenario ==
  /\ where = "TestPhysicsScenario"
  /\ where' = "banner"
  /\ UNCHANGED <<input, output, lensing>>

\* main prints "All Tests Completed Successfully!"
Banner ==
  /\ where = "banner"
  /\ output' = [output EXCEPT
                  !.printed = Append(@, <<"All Tests Completed Successfully!">>)]
  /\ where' = "return 0"
  /\ UNCHANGED <<input, lensing>>

\* main's "return 0"
Return0 ==
  /\ where = "return 0"
  /\ output' = [output EXCEPT !.status = <<0>>]
  /\ where' = "exited"
  /\ UNCHANGED <<input, lensing>>

DemoNext ==
  \/ DemoMain
  \/ BenchmarkPerformance
  \/ TestDistanceSquared
  \/ TestGravitationalForce
  \/ TestNormalize
  \/ TestDotProduct
  \/ TestVectorAdd
  \/ TestVectorScale
  \/ TestPhysicsScenario
  \/ Banner
  \/ Return0

DemoSpec == DemoInit /\ [][DemoNext]_vars

\* ------------------------------- the assembly functions, on their own

\* the masses gravitational_force is called with: small (their product is
\* below the float range), ordinary, and large (their product is beyond it)
ForceMasses == {One \div 64, One, 3 * One, 200 * One}

\* the squared distances it is called with, zero among them
SquaredDistances == {0, One \div 64, One, 10 * One, 200 * One}

\* the components of the vectors normalize_vector3 is called with: zero, the
\* smallest float (its square is zero), ordinary ones, a large one (its
\* square is infinite) and NaN
Components == {0, FloatUlp, 3 * One, -4 * One, 200 * One, NaN}

\* the float arrays of a caller of vector_add3: three arrays of three
\* floats, each named by the address of its first element
Arrays == {1, 4, 7}

\* what the arrays hold at the call
Vectors ==
  {<<One, 2 * One, 3 * One>>, <<4 * One, 5 * One, 6 * One>>,
   <<200 * One, FloatUlp, -4 * One>>}

Memories == {a \o b \o d : a \in Vectors, b \in Vectors, d \in Vectors}

\* the points vector_distance_squared is called with: the demo's two, the
\* origin, far ones (the squares are infinite), a tiny one and a NaN
Points ==
  {<<One, 2 * One, 3 * One>>, <<4 * One, 6 * One, 8 * One>>, <<0, 0, 0>>,
   <<200 * One, 200 * One, 200 * One>>, <<-200 * One, 3 * One, FloatUlp>>,
   <<NaN, 0, 0>>}

\* a caller holds the arguments of one of the functions
AsmInit ==
  /\ NotRunning
  /\ input \in
       [fn : {"gravitational_force"}, m1 : ForceMasses, m2 : ForceMasses,
        r_squared : SquaredDistances]
       \cup [fn : {"normalize_vector3"},
             vector : Components \X Components \X Components]
       \cup [fn : {"vector_add3"}, memory : Memories,
             v1 : Arrays, v2 : Arrays, result : Arrays]
       \cup [fn : {"vector_distance_squared"}, p1 : Points, p2 : Points]
  /\ output = <<>>
  /\ where = "call"

\* a C++ caller: PhysicsASM::GravitationalForce(m1, m2, r_squared), and the
\* reference on the same arguments
CallGravitationalForce ==
  /\ where = "call"
  /\ input.fn = "gravitational_force"
  /\ output' = [asm |-> GravitationalForce(input.m1, input.m2, input.r_squared),
                cpp |-> StandardImpl_GravitationalForce(input.m1, input.m2,
                                                        input.r_squared)]
  /\ where' = "return"
  /\ UNCHANGED <<input, lensing>>

\* an assembly caller that follows ASSEMBLY.md: G in xmm0, m1 in xmm1, m2 in
\* xmm2, r_squared in xmm3, then "call gravitational_force"
CallAsDocumented ==
  /\ where = "call"
  /\ input.fn = "gravitational_force"
  /\ output' = [asm |-> gravitational_force(grav_const, input.m1, input.m2)]
  /\ where' = "return (registers as documented)"
  /\ UNCHANGED <<input, lensing>>

\* PhysicsASM::Normalize(vector), and the reference on a copy
CallNormalize ==
  /\ where = "call"
  /\ input.fn = "normalize_vector3"
  /\ output' = [asm |-> Normalize(input.vector),
                cpp |-> StandardImpl_Normalize(input.vector)]
  /\ where' = "return"
  /\ UNCHANGED <<input, lensing>>

\* PhysicsASM::VectorAdd(v1, v2, result) on the caller's arrays
CallVectorAdd ==
  /\ where = "call"
  /\ input.fn = "vector_add3"
  /\ output' = [memory |-> VectorAdd(input.memory, input.v1, input.v2,
                                     input.result)]
  /\ where' = "return"
  /\ UNCHANGED <<input, lensing>>

\* vector_distance_squared on two points, and the reference on the same
CallDistanceSquared ==
  /\ where = "call"
  /\ input.fn = "vector_distance_squared"
  /\ output' =
       [asm |-> vector_distance_squared(input.p1[1], input.p1[2], input.p1[3],
                                        input.p2[1], input.p2[2], input.p2[3]),
        cpp |-> StandardImpl_DistanceSquared(input.p1[1], input.p1[2],
                                             input.p1[3], input.p2[1],
                                             input.p2[2], input.p2[3])]
  /\ where' = "return"
  /\ UNCHANGED <<input, lensing>>

AsmNext ==
  \/ CallGravitationalForce
  \/ CallAsDocumented
  \/ CallNormalize
  \/ CallVectorAdd
  \/ CallDistanceSquared

AsmSpec == AsmInit /\ [][AsmNext]_vars

\* ------------------------------------- GravitySim, the N-body simulation
\* An object is its position, velocity and mass; its radius is a function of
\* the mass and the density, which nothing changes. The window's record
\* of the keys is keys[k], what glfwGetKey(window, k) returns: the last
\* press or release of k (a repeat leaves it pressed).

\* Object::accelerate(x, y, z): "velocity[i] += x / 96"
accelerate(obj, acc) ==
  [obj EXCEPT !.velocity = <<addss(@[1], divss(acc[1], 96 * One)),
                             addss(@[2], divss(acc[2], 96 * One)),
                             addss(@[3], divss(acc[3], 96 * One))>>]

\* Object::UpdatePos: "position[i] += velocity[i] / 94"
UpdatePos(obj) ==
  [obj EXCEPT !.position = <<addss(@[1], divss(obj.velocity[1], 94 * One)),
                             addss(@[2], divss(obj.velocity[2], 94 * One)),
                             addss(@[3], divss(obj.velocity[3], 94 * One))>>]

\* a CheckCollision that damps: the factor of an inelastic collision
CheckCollisionDamping(obj, other) == One \div 2

\* Object::CheckCollision(other): "return 1.0f"
CheckCollision(obj, other) == One

\* main, the body of "if (distance > 0)": the direction is normalised, the
\* distance is scaled by 1000, Gforce = G * m * m2 / distance^2 in double
\* precision, acc1 = Gforce / m as a float, the acceleration is applied
\* "if(!pause)", and the velocity is multiplied by the collision factor
Attract(obj, obj2, distance, paused) ==
  LET scaled == mulss(distance, 1000 * One)
      Gforce == Div(Mul(Mul(GRAVITATIONAL_CONSTANT, obj.mass), obj2.mass),
                    Double(mulss(scaled, scaled)))
      acc == vector_scale3(
               Normalize(<<subss(obj2.position[1], obj.position[1]),
                           subss(obj2.position[2], obj.position[2]),
                           subss(obj2.position[3], obj.position[3])>>),
               Float(Div(Gforce, obj.mass)))
      pulled == IF paused THEN obj ELSE accelerate(obj, acc)
  IN  [pulled EXCEPT !.velocity = <<mulss(@[1], CheckCollision(obj, obj2)),
                                    mulss(@[2], CheckCollision(obj, obj2)),
                                    mulss(@[3], CheckCollision(obj, obj2))>>]

\* main, the body of "for(auto& obj2 : objs)" for another object:
\* distance = sqrt(DistanceSquared(...)), and the attraction if it is positive
Pair(obj, obj2, distance, paused) ==
  IF Gt(distance, 0) THEN Attract(obj, obj2, distance, paused) ELSE obj

RECURSIVE InnerLoop(_, _, _, _)
\* main, "for(auto& obj2 : objs)" from the j-th object on, for the i-th
InnerLoop(objs, i, j, paused) ==
  IF j > Len(objs) THEN objs
  ELSE InnerLoop(
         IF j = i THEN objs
         ELSE [objs EXCEPT ![i] =
                 Pair(@, objs[j],
                      sqrtss(DistanceSquared(
                        objs[i].position[1], objs[i].position[2],
                        objs[i].position[3], objs[j].position[1],
                        objs[j].position[2], objs[j].position[3])),
                      paused)],
         i, j + 1, paused)

RECURSIVE OuterLoop(_, _, _)
\* main, "for(auto& obj : objs)" from the i-th object on: the inner loop,
\* then "if(!pause) obj.UpdatePos();"
OuterLoop(objs, i, paused) ==
  IF i > Len(objs) THEN objs
  ELSE OuterLoop([InnerLoop(objs, i, 1, paused) EXCEPT
                    ![i] = IF paused THEN @ ELSE UpdatePos(@)],
                 i + 1, paused)

\* keyCallback(window, key, scancode, action, mods): it reads the window's
\* record of SPACE and of ESCAPE, and neither key nor action
keyCallback(program) ==
  [program EXCEPT
     !.pause = IF program.keys["SPACE"] = "PRESS" THEN ~@ ELSE @,
     !.running = IF program.keys["ESCAPE"] = "PRESS" THEN FALSE ELSE @]

\* the keys of the keyboard: SPACE, ESCAPE and another one
Keys == {"SPACE", "ESCAPE", "W"}

\* the key events delivered to a run, and the frames of a run
MaxEvents == 4

MaxTicks == 3

\* the objects main creates: a planet at rest, satellites in orbit about
\* it, and a second planet at the place of the first
Systems ==
  LET planet == [position |-> <<0, 0, 0>>, velocity |-> <<0, 0, 0>>,
                 mass |-> 8000 * One]
      moon == [position |-> <<One \div 16, 0, 0>>, velocity |-> <<0, 0, -One>>,
               mass |-> 8 * One]
      far == [position |-> <<0, 0, -(One \div 16)>>,
              velocity |-> <<One, 0, 0>>, mass |-> 8 * One]
  IN  {<<planet, moon>>, <<planet, moon, far>>, <<planet, planet>>}

\* main, up to the render loop: "bool running = true; bool pause = false;",
\* no key held, the objects created
GravityInit ==
  /\ NotRunning
  /\ input \in [objs : Systems, events : {<<>>}]
  /\ output = [pause |-> FALSE, running |-> TRUE,
               keys |-> [k \in Keys |-> "RELEASE"],
               objs |-> input.objs, frames |-> <<>>]
  /\ where = "main loop"

\* one pass of the render loop up to glfwSwapBuffers: the physics of a frame
GravityFrame ==
  /\ where = "main loop"
  /\ output.running
  /\ Len(output.frames) < MaxTicks
  /\ output' = [output EXCEPT
                  !.objs = OuterLoop(@, 1, output.pause),
                  !.frames = Append(@, output.pause)]
  /\ UNCHANGED <<input, where, lensing>>

\* glfwPollEvents delivers a key event: the window records the key's state
\* and calls keyCallback. A key is pressed when it is up, and repeats or is
\* released when it is down.
PollKeyEvent(key, action) ==
  /\ where = "main loop"
  /\ output.running
  /\ Len(input.events) < MaxEvents
  /\ (action = "PRESS") = (output.keys[key] = "RELEASE")
  /\ input' = [input EXCEPT !.events = Append(@, <<key, action>>)]
  /\ output' = keyCallback(
                 [output EXCEPT
                    !.keys[key] = IF action = "RELEASE" THEN "RELEASE"
                                  ELSE "PRESS"])
  /\ UNCHANGED <<where, lensing>>

\* "while (!glfwWindowShouldClose(window) && running == true)" ends
GravityExit ==
  /\ where = "main loop"
  /\ ~output.running
  /\ where' = "return 0"
  /\ UNCHANGED <<input, output, lensing>>

GravityNext ==
  \/ GravityFrame
  \/ \E key \in Keys, action \in {"PRESS", "REPEAT", "RELEASE"} :
       PollKeyEvent(key, action)
  \/ GravityExit

GravitySpec == GravityInit /\ [][GravityNext]_vars

\* ------------------------------------ BlackHole3D, the keys and the camera
\* Lengths are in units of 1e10 m, cursor positions in pixels, angles in
\* radians. The window's cursor position is cursor, what glfwGetCursorPos
\* returns.

\* glm::clamp with the upper limit left out
clampFromBelow(x, minVal, maxVal) == IF Le(x, minVal) THEN minVal ELSE x

\* glm::clamp(x, minVal, maxVal): min(max(x, minVal), maxVal)
clamp(x, minVal, maxVal) ==
  IF IsNaN(x) THEN x
  ELSE IF x < minVal THEN minVal
  ELSE IF x > maxVal THEN maxVal
  ELSE x

\* Camera::Camera over OrbitCamera::OrbitCamera: the camera of BlackHole3D,
\* OrbitCamera(vec3(0), 6.34194e10f, 1e10f, 1e12f, 60.0f) with
\* elevation = M_PI / 2, orbitSpeed = 0.01f and zoomSpeed = 25e9f
Camera ==
  [target |-> <<0, 0, 0>>, radius |-> Float((634194 * One) \div 100000),
   minRadius |-> One, maxRadius |-> 100 * One, azimuth |-> 0,
   elevation |-> Float(HalfPi), orbitSpeed |-> Float(One \div 100),
   zoomSpeed |-> Float((5 * One) \div 2), dragging |-> FALSE,
   panning |-> FALSE, moving |-> FALSE, lastX |-> 0, lastY |-> 0]

\* OrbitCamera::position(): the camera on its sphere about the target
position(cam) ==
  LET at(clampedElevation) ==
        <<addss(mulss(mulss(cam.radius, Float(sin(clampedElevation))),
                      Float(cos(cam.azimuth))), cam.target[1]),
          addss(mulss(cam.radius, Float(cos(clampedElevation))),
                cam.target[2]),
          addss(mulss(mulss(cam.radius, Float(sin(clampedElevation))),
                      Float(sin(cam.azimuth))), cam.target[3])>>
  IN  at(clamp(cam.elevation, Float(One \div 100),
               subss(Float(M_PI), Float(One \div 100))))

\* OrbitCamera::update(): "moving = dragging || panning"
update(cam) == [cam EXCEPT !.moving = cam.dragging \/ cam.panning]

\* BlackHole3D is running: "bool Gravity = false;", the camera constructed,
\* no event delivered yet
CameraInit ==
  /\ NotRunning
  /\ input = [event |-> <<>>, n |-> 0]
  /\ output = [Gravity |-> FALSE, camera |-> Camera, cursor |-> <<0, 0>>]
  /\ where = "BlackHole3D"

\* the events delivered to a run are counted, the last one is kept
Delivered(event) ==
  /\ where = "BlackHole3D"
  /\ input.n < MaxEvents
  /\ input' = [event |-> event, n |-> input.n + 1]
  /\ UNCHANGED <<where, lensing>>

\* Camera::processKey that toggles on every event of the key G
processKeyAnyAction(key, scancode, action, mods) ==
  /\ Delivered(<<"key", key, action>>)
  /\ output' = [output EXCEPT !.Gravity = IF key = "G" THEN ~@ ELSE @]

\* Camera::processKey(key, scancode, action, mods), the key callback
processKey(key, scancode, action, mods) ==
  /\ Delivered(<<"key", key, action>>)
  /\ output' = [output EXCEPT
                  !.Gravity = IF action = "PRESS" /\ key = "G" THEN ~@ ELSE @]

\* OrbitCamera::processMouseButton(button, action, mods, win)
processMouseButton(button, action, mods) ==
  /\ Delivered(<<"button", button, action, mods>>)
  /\ output' =
       IF button \in {"LEFT", "MIDDLE"} /\ action = "PRESS"
         THEN [output EXCEPT
                 !.camera.dragging = TRUE,
                 !.camera.panning = ("SHIFT" \in mods) \/ button = "MIDDLE",
                 !.camera.lastX = output.cursor[1],
                 !.camera.lastY = output.cursor[2]]
       ELSE IF button \in {"LEFT", "MIDDLE"} /\ action = "RELEASE"
         THEN [output EXCEPT !.camera.dragging = FALSE,
                              !.camera.panning = FALSE]
       ELSE output

\* OrbitCamera::processMouseMove, "if (panning)": the target is moved along
\* the camera's right and up, by the cursor's movement times 0.005 * radius
pan(cam, dx, dy) ==
  LET cross(a, b) == <<subss(mulss(a[2], b[3]), mulss(a[3], b[2])),
                       subss(mulss(a[3], b[1]), mulss(a[1], b[3])),
                       subss(mulss(a[1], b[2]), mulss(a[2], b[1]))>>
      normalize(v) == DivideInPlace(v, Magnitude(v))
      along(right, up, panSpeed) ==
        [cam EXCEPT !.target =
           <<addss(@[1], addss(mulss(mulss(Neg(right[1]), dx), panSpeed),
                               mulss(mulss(up[1], dy), panSpeed))),
             addss(@[2], addss(mulss(mulss(Neg(right[2]), dx), panSpeed),
                               mulss(mulss(up[2], dy), panSpeed))),
             addss(@[3], addss(mulss(mulss(Neg(right[3]), dx), panSpeed),
                               mulss(mulss(up[3], dy), panSpeed)))>>]
      across(forward, right) ==
        along(right, cross(right, forward),
              mulss(Float((5 * One) \div 1000), cam.radius))
      looking(forward) ==
        across(forward, normalize(cross(forward, <<0, One, 0>>)))
      from(pos) ==
        looking(normalize(<<subss(cam.target[1], pos[1]),
                            subss(cam.target[2], pos[2]),
                            subss(cam.target[3], pos[3])>>))
  IN  from(position(cam))

\* OrbitCamera::processMouseMove(x, y), the cursor callback
processMouseMove(x, y) ==
  /\ Delivered(<<"move", x, y>>)
  /\ output' =
       IF ~output.camera.dragging THEN [output EXCEPT !.cursor = <<x, y>>]
       ELSE LET cam == output.camera
                dx == Float(Sub(x, cam.lastX))
                dy == Float(Sub(y, cam.lastY))
                moved ==
                  IF cam.panning THEN pan(cam, dx, dy)
                  ELSE [cam EXCEPT
                          !.azimuth = addss(@, mulss(dx, cam.orbitSpeed)),
                          !.elevation =
                            clamp(subss(@, mulss(dy, cam.orbitSpeed)),
                                  Float(One \div 100),
                                  subss(Float(M_PI), Float(One \div 100)))]
            IN  [output EXCEPT
                   !.cursor = <<x, y>>,
                   !.camera = update([moved EXCEPT !.lastX = x, !.lastY = y])]

\* OrbitCamera::processScroll(yoffset), the scroll callback
processScroll(yoffset) ==
  /\ Delivered(<<"scroll", yoffset>>)
  /\ output' =
       [output EXCEPT
          !.camera =
            update([@ EXCEPT
                      !.radius =
                        clamp(Float(Sub(@, Mul(yoffset,
                                               output.camera.zoomSpeed))),
                              output.camera.minRadius,
                              output.camera.maxRadius)])]

\* glfwPollEvents delivers a key event, a mouse button event, a cursor
\* position or a scroll offset
CameraNext ==
  \/ \E key \in {"G", "W"}, action \in {"PRESS", "REPEAT", "RELEASE"} :
       processKey(key, 0, action, {})
  \/ \E button \in {"LEFT", "MIDDLE", "RIGHT"}, action \in {"PRESS", "RELEASE"},
        mods \in {{}, {"SHIFT"}} :
       processMouseButton(button, action, mods)
  \/ \E x \in {0, 400 * One}, y \in {0, 300 * One, 600 * One} :
       processMouseMove(x, y)
  \/ \E yoffset \in {-One, One, -50 * One, 50 * One} : processScroll(yoffset)

CameraSpec == CameraInit /\ [][CameraNext]_vars

\* ------------------------------------------------------------------ claims

\* C1 -- horizon guard: when Ray::step is called on a photon whose r <= rs,
\* it returns without integrating, and the photon (r, phi, dr, dphi, x, y,
\* E, L and the trail, contents and length) is exactly what it was before
\* the call.
HorizonGuardFreezes ==
  [][(pc = "step" /\ InsideHorizon(rays[idx], SagA.r_s))
       => (rays'[idx] = rays[idx] /\ nsteps'[idx] = nsteps[idx])]_vars

\* C1, its case: Ray::step has been called on a photon inside the horizon
HorizonGuardActed ==
  \E i \in DOMAIN rays :
    /\ InsideHorizon(rays[i], SagA.r_s)
    /\ calls[i] > nsteps[i]
    /\ Len(rays[i].trail) > 1

\* C2 -- capture is the only termination condition: on every tick a photon
\* is integrated and gains exactly one trail point if and only if its
\* r > rs before the tick, and a tick leaves a photon unmutated only when
\* its r <= rs.
CaptureOnlyTermination ==
  [][pc = "step" =>
       /\ (Len(rays'[idx].trail) = Len(rays[idx].trail) + 1)
            <=> Gt(rays[idx].r, SagA.r_s)
       /\ (nsteps'[idx] = nsteps[idx] + 1) <=> Gt(rays[idx].r, SagA.r_s)
       /\ (rays'[idx] = rays[idx]) => Le(rays[idx].r, SagA.r_s)]_vars

\* the number of calls of Ray::step within which a photon aimed at the
\* object from a StartPositions distance is to be captured
CaptureBudget == 4

\* a photon created outside the horizon with zero impact parameter: on the
\* axis through the object, its direction (c, 0) pointing at it
ZeroImpact(i) ==
  /\ created[i].y = 0
  /\ created[i].x < 0
  /\ Gt(created[i].r, SagA.r_s)

\* C3 -- capture liveness: a photon created at r > rs with zero impact
\* parameter reaches r <= rs within a bounded number of fixed-size steps,
\* and from then on its state and trail length are constant.
ZeroImpactCaptured ==
  \A i \in DOMAIN rays :
    (ZeroImpact(i) /\ calls[i] >= CaptureBudget)
      => (Le(rays[i].r, SagA.r_s) /\ Len(rays[i].trail) <= CaptureBudget)


StoredEandLNeverChange ==
  \A i \in DOMAIN rays :
    /\ rays[i].E = created[i].E
    /\ rays[i].L = created[i].L

\* C5, its case: a photon with angular momentum has been integrated twice
\* and drawn, and a photon has been captured and stepped again
ConservedAfterSteps ==
  /\ \E i \in DOMAIN rays :
       /\ nsteps[i] >= 2
       /\ rays[i].L # 0
       /\ ~IsNaN(rays[i].L)
       /\ rays[i].dphi # created[i].dphi
       /\ i \in drawn
  /\ \E j \in DOMAIN rays :
       /\ InsideHorizon(rays[j], SagA.r_s)
       /\ calls[j] > nsteps[j]

\* C6 -- each of the four right-hand-side evaluations of one RK4 step
\* computes dt_dlambda = E / f from the photon's creation-time E (the stage
\* photons carry that same E), never from a recomputed one.
RHSUsesStoredEnergy ==
  \A i \in DOMAIN rays :
    nsteps[i] > 0
      => rhsE[i] = <<created[i].E, created[i].E, created[i].E, created[i].E>>

\* C6, its case: an RK4 step has run on a photon whose radial speed has
\* moved away from its energy
RHSEvaluatedOffAxis ==
  \E i \in DOMAIN rays :
    /\ nsteps[i] >= 2
    /\ rhsE[i] # <<>>
    /\ ~IsNaN(rays[i].dr)
    /\ Abs(rays[i].dr) # created[i].E


\* the successful (integrating) calls of Ray::step leave these on the trail
TrailCounts(i) ==
  /\ Len(rays[i].trail) = 1 + nsteps[i]
  /\ rays[i].trail[1] = created[i].trail[1]
  /\ created[i].trail = <<vec2(created[i].x, created[i].y)>>

\* C7 -- the trail is append-only: it starts with the single initial
\* position, every successful integration step appends exactly one point
\* equal to the newly recomputed (r cos(phi), r sin(phi)), and no operation
\* removes, reorders or overwrites a point, so that the trail length is
\* 1 + the number of successful steps.
TrailAppendsPosition ==
  /\ [](\A i \in DOMAIN rays : TrailCounts(i))
  /\ [][\A i \in DOMAIN rays :
          \/ rays'[i].trail = rays[i].trail /\ nsteps'[i] = nsteps[i]
          \/ /\ nsteps'[i] = nsteps[i] + 1
             /\ rays'[i].trail =
                  Append(rays[i].trail,
                         <<Mul(rays'[i].r, cos(rays'[i].phi)),
                           Mul(rays'[i].r, sin(rays'[i].phi))>>)]_vars

\* C7, as Ray::step pushes: the same, the appended point being the
\* recomputed (r cos(phi), r sin(phi)) converted to single precision, the x
\* and y of the photon keeping the double-precision values.
TrailAppendsFloatPosition ==
  /\ [](\A i \in DOMAIN rays : TrailCounts(i))
  /\ [][\A i \in DOMAIN rays :
          \/ rays'[i].trail = rays[i].trail /\ nsteps'[i] = nsteps[i]
          \/ /\ nsteps'[i] = nsteps[i] + 1
             /\ rays'[i].x = Mul(rays'[i].r, cos(rays'[i].phi))
             /\ rays'[i].y = Mul(rays'[i].r, sin(rays'[i].phi))
             /\ rays'[i].trail =
                  Append(rays[i].trail,
                         <<Float(rays'[i].x), Float(rays'[i].y)>>)]_vars

\* C7, its case: a trail of three points whose last point is not the
\* double-precision position it was converted from
TrailGrewRounded ==
  \E i \in DOMAIN rays :
    /\ Len(rays[i].trail) >= 3
    /\ ~IsNaN(rays[i].x)
    /\ rays[i].trail[Len(rays[i].trail)] # <<rays[i].x, rays[i].y>>

\* C8 -- photons are integrated independently: stepping one photon reads
\* and writes only that photon (and the constant rs and dlambda) and leaves
\* every other photon unchanged.
PhotonsIndependent ==
  [][/\ \A i \in DOMAIN rays :
          rays'[i] # rays[i] => (pc = "step" /\ i = idx)
     /\ pc = "step" => rays'[idx] = step(rays[idx], dLambda, SagA.r_s)
     /\ DOMAIN rays' = DOMAIN rays]_vars

\* C8, its case: one photon has been integrated while another is still as
\* its constructor left it
OnePhotonStepped ==
  \E i, j \in DOMAIN rays :
    /\ i # j
    /\ nsteps[i] > 0
    /\ rays[i] # created[i]
    /\ calls[j] = 0
    /\ rays[j] = created[j]
    /\ ~InsideHorizon(rays[j], SagA.r_s)

RECURSIVE StepTimes(_, _, _, _)
\* the photon after n calls of Ray::step(dl, rs)
StepTimes(ray, n, dl, rs) ==
  IF n = 0 THEN ray ELSE step(StepTimes(ray, n - 1, dl, rs), dl, rs)

\* C9 -- determinism: the photons after any number of ticks are a function
\* of the mass, the initial photons and the fixed dlambda = 1.0 only: when
\* the ticks of frame n are done every photon is the n-fold Ray::step of
\* the photon its constructor made, whatever window events were delivered
\* and whatever was drawn.
TicksDeterministic ==
  pc = "swap" =>
    \A i \in DOMAIN rays :
      /\ calls[i] = frame
      /\ rays[i] = StepTimes(created[i], frame, One, BlackHole(SagA.mass).r_s)

\* C9, its case: the window has been resized while photons were integrated
\* and drawn over several frames
TickedAcrossWindowEvents ==
  /\ pc = "swap"
  /\ engine.WIDTH # 800
  /\ frame >= 3
  /\ drawn = DOMAIN rays
  /\ \E i \in DOMAIN rays : nsteps[i] >= 3 /\ ~IsNaN(rays[i].r)

\* the right-hand side as a vector field on y = (r, phi, dr, dphi), for a
\* photon of energy E
RHSField(y, E, rs) ==
  geodesicRHS([r |-> y[1], phi |-> y[2], dr |-> y[3], dphi |-> y[4],
               E |-> E], rs)

\* y + h * k
Axpy(y, k, h) == [i \in 1..4 |-> Add(y[i], Mul(k[i], h))]

\* the classical fourth-order Runge-Kutta update of y0 with step h
StandardRK4(y0, E, rs, h) ==
  LET k1 == RHSField(y0, E, rs)
      k2 == RHSField(Axpy(y0, k1, Div(h, Two)), E, rs)
      k3 == RHSField(Axpy(y0, k2, Div(h, Two)), E, rs)
      k4 == RHSField(Axpy(y0, k3, h), E, rs)
  IN  [i \in 1..4 |->
         Add(y0[i],
             Mul(Div(h, 6 * One),
                 Add(Add(Add(k1[i], Mul(Two, k2[i])), Mul(Two, k3[i])),
                     k4[i])))]

\* C10 -- rk4Step is the standard RK4 update: k1 = rhs(y0),
\* k2 = rhs(y0 + (dl/2) k1), k3 = rhs(y0 + (dl/2) k2), k4 = rhs(y0 + dl k3),
\* every stage built from the pre-step y0 = (r, phi, dr, dphi), and the
\* photon's (r, phi, dr, dphi) become y0 + (dl/6)(k1 + 2 k2 + 2 k3 + k4).
StepIsStandardRK4 ==
  [][(pc = "step" /\ ~InsideHorizon(rays[idx], SagA.r_s))
       => \A i \in 1..4 :
            rk4Y0(rays'[idx])[i] =
              StandardRK4(rk4Y0(rays[idx]), rays[idx].E, SagA.r_s, dLambda)[i]]_vars

\* C10, its case: an RK4 step has moved all four components of a photon
\* to finite values
AllComponentsIntegrated ==
  \E i \in DOMAIN rays :
    /\ nsteps[i] = 1
    /\ ~IsNaN(rays[i].r) /\ ~IsNaN(rays[i].dphi)
    /\ rays[i].r # created[i].r
    /\ rays[i].phi # created[i].phi
    /\ rays[i].dr # created[i].dr
    /\ rays[i].dphi # created[i].dphi


\* C11 -- single writer: after construction the photons are mutated only
\* by the per-tick Ray::step; Ray::draw and BlackHole::draw read them (x, y
\* and the trail go to OpenGL) and leave every photon's r, phi, dr, dphi,
\* x, y, E, L and trail unchanged.
DrawingReadsOnly ==
  [][/\ rays' # rays => pc = "step"
     /\ pc \in {"draw", "bhdraw"} => (rays' = rays /\ canvas' # canvas)]_vars

\* C11, its case: a photon that has been integrated twice has been drawn,
\* point and line strip
IntegratedPhotonDrawn ==
  \E i \in drawn :
    /\ nsteps[i] >= 2
    /\ \E k \in DOMAIN canvas :
         /\ canvas[k] = RayVertices(rays[i])
         /\ Len(canvas[k].strip) = Len(rays[i].trail)

\* C12 -- every photon satisfies r > 0 in every reachable state: at
\* creation and after every integration step.
RadiusPositive ==
  \A i \in DOMAIN rays : Gt(rays[i].r, 0)

\* C13 -- no deletion: the collection of photons is filled once at
\* initialization and afterwards never grows or shrinks; a captured photon
\* stays in it and is still visited, and skipped by the guard, on every
\* later tick.
PhotonsNeverDeleted ==
  /\ [](/\ Len(rays) = Len(created)
        /\ DOMAIN calls = DOMAIN rays
        /\ pc \in {"swap", "poll", "exit"}
             => \A i \in DOMAIN rays : calls[i] = frame)
  /\ [][Len(rays') = Len(rays)]_vars

\* C13, its case: a captured photon is still in the collection and has
\* been visited and skipped on two later ticks
CapturedStillVisited ==
  \E i \in DOMAIN rays :
    /\ InsideHorizon(rays[i], SagA.r_s)
    /\ calls[i] >= nsteps[i] + 2
    /\ Len(rays) = NumRays

\* the least impact parameter, in units of rs, that counts as very large
ImpactFactor == 3

\* a photon created with a very large impact parameter: main's photons move
\* in direction (c, 0), so the impact parameter is |y|
LargeImpact(i) ==
  /\ ~IsNaN(created[i].y)
  /\ Abs(created[i].y) >= ImpactFactor * SagA.r_s

\* C14 -- escape: a photon with a very large impact parameter relative to
\* rs never reaches r <= rs, at any tick of the simulated horizon: its r
\* stays above rs and no call of Ray::step on it is skipped.
LargeImpactEscapes ==
  \A i \in DOMAIN rays :
    LargeImpact(i) => (Gt(rays[i].r, SagA.r_s) /\ nsteps[i] = calls[i])

\* C14, its case: a photon with a very large impact parameter has been
\* integrated on four ticks and has come closer to the object
LargeImpactIntegrated ==
  \E i \in DOMAIN rays :
    /\ LargeImpact(i)
    /\ nsteps[i] >= 4
    /\ Gt(created[i].r, rays[i].r)

\* what "within 1e-4 relative" allows at position pos, plus what the angles of
\* this model cannot resolve: 1 / Scale radian moves a point at distance r
\* by r / Scale
RoundTripTolerance(pos) ==
  (Abs(pos[1]) + Abs(pos[2])) \div 10000
    + (2 * (Abs(pos[1]) + Abs(pos[2]))) \div Scale

\* a is b within the tolerance tol; false when a is not finite
Within(a, b, tol) == ~IsNaN(a) /\ Abs(a - b) <= tol

\* C15 -- round trip: for any initial Cartesian position p other than (0, 0),
\* converting to polar as the constructor does (r = sqrt(x^2 + y^2),
\* phi = atan2(y, x)) and back as step does (x = r cos(phi), y = r sin(phi))
\* yields p within 1e-4 relative tolerance.
RoundTripWithinTolerance ==
  where = "return" =>
    /\ Within(output.x, input.pos[1], RoundTripTolerance(input.pos))
    /\ Within(output.y, input.pos[2], RoundTripTolerance(input.pos))

\* C16 -- the compact object's Schwarzschild radius equals 2 G mass / c^2,
\* is strictly positive, and neither the mass nor the radius changes after
\* construction: every tick of every photon is guarded against the same rs.
SchwarzschildRadiusFixed ==
  /\ [](/\ SagA.r_s = CalculateSchwarzschildRadius(SagA.mass)
        /\ Gt(SagA.r_s, 0)
        /\ SagA.mass \in Masses)
  /\ [][SagA' = SagA]_vars

\* C16, its case: the object has been drawn in several frames, photons have
\* been integrated against its radius and the window has been resized
RadiusUsedAcrossFrames ==
  /\ frame >= 3
  /\ engine.WIDTH # 800
  /\ \E i \in DOMAIN rays : nsteps[i] >= 3
  /\ \E i \in DOMAIN rays : InsideHorizon(rays[i], SagA.r_s)

\* the "Match:" lines printed so far that report a mismatch
Mismatches ==
  {k \in DOMAIN output.printed :
     Len(output.printed[k]) = 2 /\ output.printed[k][2] = FALSE}

\* the demo has reported overall success: the banner, then exit status 0
ReportedSuccess ==
  /\ output.status = <<0>>
  /\ \E k \in DOMAIN output.printed :
       output.printed[k] = <<"All Tests Completed Successfully!">>

Normalized == where = "return" /\ input.fn = "normalize_vector3"

\* C18, as stated -- normalize_vector3 handles every input like the
\* reference: a vector of zero magnitude is left unchanged (no division is
\* performed), and any other vector has each of its three components
\* divided in place by sqrt(x^2 + y^2 + z^2).
ZeroUnchangedElseDivided ==
  Normalized =>
    /\ output.asm = output.cpp
    /\ output.asm = IF Magnitude(input.vector) = 0 THEN input.vector
                    ELSE DivideInPlace(input.vector, Magnitude(input.vector))

\* C18, amended -- normalize_vector3 handles every input like the
\* reference: a vector whose magnitude sqrt(x^2 + y^2 + z^2) computes to zero
\* or to NaN is left unchanged, and any other vector has each of its three
\* components divided in place by that magnitude.
ZeroOrNaNUnchangedElseDivided ==
  Normalized =>
    /\ output.asm = output.cpp
    /\ output.asm = IF Magnitude(input.vector) = 0 \/ IsNaN(Magnitude(input.vector))
                    THEN input.vector
                    ELSE DivideInPlace(input.vector, Magnitude(input.vector))

\* C18, its case: a vector with a NaN component and two ordinary ones has
\* come back from normalize_vector3 as it was
NaNVectorLeftUnchanged ==
  /\ Normalized
  /\ IsNaN(Magnitude(input.vector))
  /\ input.vector[2] = 3 * One
  /\ input.vector[3] = -4 * One
  /\ output.asm = input.vector

\* C19 -- gravitational_force(m1, m2, d2) returns the same value as the C++
\* reference (G * m1 * m2) / d2, for all masses and every d2 other than 0,
\* although the assembly evaluates it in the order (G * m1 / d2) * m2.
ForceEqualsReference ==
  (where = "return" /\ input.fn = "gravitational_force" /\ input.r_squared # 0)
    => output.asm = output.cpp

\* C20 -- gravitational_force takes its inputs as ASSEMBLY.md documents
\* them, G in xmm0, m1 in xmm1, m2 in xmm2 and r_squared in xmm3, and returns
\* G * m1 * m2 / r_squared in xmm0 (in either order of evaluation).
DocumentedRegistersGiveForce ==
  (where = "return (registers as documented)" /\ input.r_squared # 0)
    => output.asm \in {StandardImpl_GravitationalForce(input.m1, input.m2,
                                                       input.r_squared),
                       GravitationalForce(input.m1, input.m2, input.r_squared)}

\* C21: vector_add3(v1, v2, result) leaves v1[i] + v2[i], of the values held
\* at the call, in result[i] for the three components and every other float
\* of the memory as it was, also when result is the array v1 or the array v2.
AddStoresSumAndNothingElse ==
  (where = "return" /\ input.fn = "vector_add3") =>
    \A a \in DOMAIN input.memory :
      output.memory[a] =
        IF a \in input.result .. input.result + 2
          THEN addss(input.memory[input.v1 + (a - input.result)],
                     input.memory[input.v2 + (a - input.result)])
          ELSE input.memory[a]

\* a sum was accumulated in place: the result array is also an operand, and
\* the call changed it
AccumulatedInPlace ==
  /\ where = "return"
  /\ input.fn = "vector_add3"
  /\ input.result = input.v1
  /\ input.v2 # input.v1
  /\ output.memory # input.memory

\* the sum of the squared differences in the arithmetic of doubles
SumOfSquares(p1, p2) ==
  Add(Add(Mul(Sub(p2[1], p1[1]), Sub(p2[1], p1[1])),
          Mul(Sub(p2[2], p1[2]), Sub(p2[2], p1[2]))),
      Mul(Sub(p2[3], p1[3]), Sub(p2[3], p1[3])))

\* C22: vector_distance_squared returns the value of the C++ reference for
\* all inputs, and that value is (x2-x1)^2 + (y2-y1)^2 + (z2-z1)^2 rounded
\* to a float (infinite beyond the float range, NaN of a NaN), with no
\* square root taken.
DistanceSquaredEqualsReference ==
  (where = "return" /\ input.fn = "vector_distance_squared") =>
    /\ output.asm = output.cpp
    /\ output.asm = IF IsNaN(SumOfSquares(input.p1, input.p2)) THEN NaN
                    ELSE Single(SumOfSquares(input.p1, input.p2))

\* the demo's points were compared: 3^2 + 4^2 + 5^2 = 50
DistanceSquaredOfDemoPoints ==
  /\ where = "return"
  /\ input.fn = "vector_distance_squared"
  /\ input.p1 = <<One, 2 * One, 3 * One>>
  /\ input.p2 = <<4 * One, 6 * One, 8 * One>>
  /\ output.asm = 50 * One

\* C23: a photon constructed at or inside the horizon (r <= rs, the origin
\* included) is constructed like any other, and every step call leaves it as
\* it was constructed: its trail is the single initial point forever.
CapturedFromTheStart ==
  (where = "Ray::step"
     /\ InsideHorizon(Ray(input.pos, input.dir, input.rs), input.rs)) =>
    /\ output = Ray(input.pos, input.dir, input.rs)
    /\ output.trail = <<input.pos>>
    /\ step(output, dLambda, input.rs) = output

\* a photon was constructed at the origin, r = 0, and is being stepped
ConstructedAtTheOrigin ==
  /\ where = "Ray::step"
  /\ input.pos = <<0, 0>>
  /\ output.r = 0
  /\ output.trail = <<input.pos>>

\* C27: in every state of a photon its cached Cartesian position, converted
\* to single precision, is the last point of its trail, and a successful
\* step leaves in it (r cos(phi), r sin(phi)) of the updated r and phi.
CachedPositionIsLastTrailPoint ==
  /\ [](\A i \in DOMAIN rays :
          rays[i].trail[Len(rays[i].trail)]
            = <<Float(rays[i].x), Float(rays[i].y)>>)
  /\ [][\A i \in DOMAIN rays :
          nsteps'[i] = nsteps[i] + 1 =>
            /\ rays'[i].x = Mul(rays'[i].r, cos(rays'[i].phi))
            /\ rays'[i].y = Mul(rays'[i].r, sin(rays'[i].phi))]_vars

\* a photon has moved: it was integrated, its cached position is finite and
\* no longer the position it was constructed at
CachedPositionMoved ==
  \E i \in DOMAIN rays :
    /\ nsteps[i] >= 2
    /\ ~IsNaN(rays[i].x)
    /\ ~IsNaN(rays[i].y)
    /\ <<rays[i].x, rays[i].y>> # <<created[i].x, created[i].y>>
    /\ Len(rays[i].trail) = nsteps[i] + 1

\* a photon created outside the horizon with no angular velocity
Radial(i) ==
  /\ Gt(created[i].r, SagA.r_s)
  /\ created[i].dphi = 0

\* C28: a purely radial photon stays radial: created at r > rs with
\* dphi = 0 it has L = 0, and every integration step leaves its phi and dphi
\* unchanged and its dr unchanged, and changes its r by dr * dlambda (dr and
\* r to within an eighth of the unit of length, the rounding of the
\* integration here).
RadialStaysRadial ==
  /\ [](\A i \in DOMAIN rays : Radial(i) => created[i].L = 0)
  /\ [][\A i \in DOMAIN rays :
          (Radial(i) /\ nsteps'[i] = nsteps[i] + 1) =>
            /\ rays'[i].phi = rays[i].phi
            /\ rays'[i].dphi = rays[i].dphi
            /\ Within(rays'[i].dr, rays[i].dr, One \div 8)
            /\ Within(rays'[i].r, Add(rays[i].r, Mul(rays[i].dr, dLambda)),
                      One \div 8)]_vars

\* C24: in the N-body simulation the pause flag flips exactly once per press
\* of SPACE: a key event changes it if and only if it is a press of SPACE,
\* so that repeats, releases and the events of other keys leave it alone,
\* whether or not SPACE is held.
PauseFlipsOncePerSpacePress ==
  [][Len(input'.events) = Len(input.events) + 1 =>
       ((output'.pause # output.pause)
          <=> (input'.events[Len(input'.events)] = <<"SPACE", "PRESS">>))]_vars

\* C25: while the pause flag is true, a frame of the N-body simulation
\* leaves the position and the velocity of every object unchanged.
PausedFrameMovesNothing ==
  [][(Len(output'.frames) = Len(output.frames) + 1 /\ output.pause) =>
       output'.objs = output.objs]_vars

\* a frame ran while paused, after a frame that moved the objects
PausedAfterMoving ==
  /\ where = "main loop"
  /\ Len(output.frames) >= 2
  /\ output.frames[1] = FALSE
  /\ output.frames[Len(output.frames)] = TRUE
  /\ output.objs # input.objs
  /\ \E i \in DOMAIN output.objs :
       output.objs[i].velocity # input.objs[i].velocity

\* C26: in the 3D simulation the Gravity flag starts false, and a key event
\* flips it if and only if its key is G and its action PRESS: the other
\* keys, the repeats of G and its release leave it unchanged (as do the
\* events of the mouse).
GravityTogglesOnGPress ==
  /\ [](input.n = 0 => ~output.Gravity)
  /\ [][input'.n = input.n + 1 =>
          ((output'.Gravity # output.Gravity)
             <=> (input'.event = <<"key", "G", "PRESS">>))]_vars

\* gravity was switched on by a press of G, and the release of G left it on
GravityOnAfterRelease ==
  /\ output.Gravity
  /\ input.n = 2
  /\ input.event = <<"key", "G", "RELEASE">>

\* C29: after any sequence of mouse-button, mouse-move and scroll events the
\* flag moving of the OrbitCamera equals (dragging || panning); in
\* particular it is false once the button has been released.
MovingIsDraggingOrPanning ==
  output.camera.moving = (output.camera.dragging \/ output.camera.panning)

\* C30: after any sequence of events the orbit parameters of a camera
\* constructed with minRadius <= radius <= maxRadius are within their
\* limits: minRadius <= radius <= maxRadius and
\* 0.01 <= elevation <= pi - 0.01.
OrbitWithinLimits ==
  /\ Le(output.camera.minRadius, output.camera.radius)
  /\ Le(output.camera.radius, output.camera.maxRadius)
  /\ Le(Float(One \div 100), output.camera.elevation)
  /\ Le(output.camera.elevation, subss(Float(M_PI), Float(One \div 100)))

\* the camera was zoomed out to its largest radius and, in a drag, tilted to
\* its largest elevation
ZoomedAndTiltedToTheLimits ==
  /\ output.camera.radius = output.camera.maxRadius
  /\ output.camera.elevation = subss(Float(M_PI), Float(One \div 100))
  /\ output.camera.radius # Camera.radius

====
